---- MODULE Spec2Model ----
(***************************************************************************)
(* A model of remote_update.py: the scan of a local folder                 *)
(* (get_files_with_serials), the batched lookup of the record store        *)
(* (get_batch_file_paths_from_db) and the relocation loop                  *)
(* (move_files_to_remote_paths), driven by main().                         *)
(*                                                                         *)
(* Strings are sequences of one-character strings, so that slicing,        *)
(* startswith and replace are computed as Python computes them.  The       *)
(* platform is Windows (UNC destinations, ntpath, case-insensitive glob).  *)
(* The scanned folder and the destination tree are disjoint path spaces.   *)
(***************************************************************************)
EXTENDS Integers, Sequences, FiniteSets

\* ------------------------------------------------------------------ bounds

\* Longest stored path drawn for a record-store row.
MaxPathLen == 5
\* Most rows the record-store table holds.
MaxRows == 2

\* -------------------------------------------------------- program constants

\* filepath.stem[:20]
KeyLen == 20

DB_PATH_PREFIX == <<"/", "E", "L", "/">>

NETWORK_SHARE_BASE ==
    <<"\\", "\\", "1", "9", "2", ".", "1", "6", "8", ".", "2", ".", "2", "\\",
      "h", "o", "m", "e", "s", "\\", "r", "y", "a", "n", "\\">>

\* ----------------------------------------------------------------- strings

\* s[:n]
Prefix(s, n) == SubSeq(s, 1, IF n < Len(s) THEN n ELSE Len(s))

\* s[n:]
Suffix(s, n) == SubSeq(s, n + 1, Len(s))

\* s.startswith(p)
startswith(s, p) == Len(s) >= Len(p) /\ SubSeq(s, 1, Len(p)) = p

\* s.endswith(p)
endswith(s, p) == Len(s) >= Len(p) /\ SubSeq(s, Len(s) - Len(p) + 1, Len(s)) = p

\* s.lower(), on the letters file extensions are spelled with
LowerChar(c) ==
    CASE c = "J" -> "j" [] c = "P" -> "p" [] c = "G" -> "g" [] c = "E" -> "e"
      [] OTHER -> c

lower(s) == [i \in 1..Len(s) |-> LowerChar(s[i])]

\* s.replace('/', '\\'): a left-to-right scan
RECURSIVE replace(_)
replace(s) ==
    IF s = <<>> THEN <<>>
    ELSE <<IF Head(s) = "/" THEN "\\" ELSE Head(s)>> \o replace(Tail(s))

\* s.strip(), for the only whitespace a file name of the model holds
RECURSIVE lstrip(_)
lstrip(s) == IF s # <<>> /\ Head(s) = " " THEN lstrip(Tail(s)) ELSE s

RECURSIVE rstrip(_)
rstrip(s) ==
    IF s # <<>> /\ s[Len(s)] = " " THEN rstrip(SubSeq(s, 1, Len(s) - 1)) ELSE s

strip(s) == rstrip(lstrip(s))

\* s.rfind(c), 1-based, 0 when absent
RECURSIVE rfind(_, _)
rfind(s, c) ==
    IF s = <<>> THEN 0
    ELSE IF s[Len(s)] = c THEN Len(s)
    ELSE rfind(SubSeq(s, 1, Len(s) - 1), c)

\* PurePath.stem: the name without its last suffix; a leading or a trailing
\* dot starts no suffix.
stem(name) ==
    LET i == rfind(name, ".")
    IN  IF 1 < i /\ i < Len(name) THEN SubSeq(name, 1, i - 1) ELSE name

truncate_first_20(text) == Prefix(text, KeyLen)

IsSep(c) == c = "\\" \/ c = "/"

RECURSIVE LastSep(_)
LastSep(p) ==
    IF p = <<>> THEN 0
    ELSE IF IsSep(p[Len(p)]) THEN Len(p)
    ELSE LastSep(SubSeq(p, 1, Len(p) - 1))

RECURSIVE StripSeps(_)
StripSeps(h) ==
    IF h # <<>> /\ IsSep(h[Len(h)]) THEN StripSeps(SubSeq(h, 1, Len(h) - 1)) ELSE h

\* os.path.dirname (ntpath, without its drive splitting): the text before the
\* last separator, trailing separators stripped unless nothing else is left;
\* empty when the path holds no separator.
dirname(p) ==
    LET head == SubSeq(p, 1, LastSep(p))
    IN  IF StripSeps(head) = <<>> THEN head ELSE StripSeps(head)

\* ---------------------------------------------------------------- the folder

Key20 ==
    <<"A", "B", "C", "D", "E", "F", "G", "H", "I", "J",
      "K", "L", "M", "N", "O", "P", "Q", "R", "S", "T">>

\* Two files whose stems share their first 20 characters, a file with a short
\* stem, a file whose stem ends in a blank, and a file that is no image.
FileA == Key20 \o <<"1", ".", "j", "p", "g">>
FileB == Key20 \o <<"2", ".", "J", "P", "G">>
FileC == <<"C", ".", "j", "p", "e", "g">>
FileS == <<"S", " ", ".", "j", "p", "g">>
FileT == <<"T", ".", "t", "x", "t">>

\* The folders a run starts on.
Folders ==
    { {}, {FileA, FileB}, {FileC, FileS, FileT}, {FileA, FileB, FileC, FileT} }

\* --------------------------------------------------------------- the scan

\* Path.glob(pattern) on a case-insensitive file system: the names whose
\* lower-cased text ends in the lower-cased extension of the pattern.
glob(listing, ext) ==
    LET Match(n) == endswith(lower(n), lower(ext))
    IN  SelectSeq(listing, Match)

\* The four globs of get_files_with_serials and process_jpg_files, in order.
jpg_files(listing) ==
    glob(listing, <<".", "j", "p", "g">>) \o glob(listing, <<".", "j", "p", "e", "g">>)
      \o glob(listing, <<".", "J", "P", "G">>) \o glob(listing, <<".", "J", "P", "E", "G">>)

\* Every order a set can be listed in.
Listings(S) ==
    { l \in [1..Cardinality(S) -> S] : \A i, j \in 1..Cardinality(S) : l[i] = l[j] => i = j }

\* get_serials_from_main: main_naming.py --quiet prints one serial a line for
\* the files it globbed, and the caller keeps the stripped, non-empty lines; a
\* failed subprocess gives the empty set.
get_serials_from_main(files, subprocess_ok) ==
    IF ~subprocess_ok THEN {}
    ELSE LET printed == { truncate_first_20(stem(files[i])) : i \in 1..Len(files) }
         IN  { strip(line) : line \in printed } \ {<<>>}

\* d[k] = v
DictSet(d, k, v) == [x \in DOMAIN d \cup {k} |-> IF x = k THEN v ELSE d[x]]

\* The loop of get_files_with_serials over jpg_files: files_with_serials[serial]
\* = filepath for every file whose serial main_naming.py printed.
RECURSIVE files_with_serials(_, _, _)
files_with_serials(files, serials, acc) ==
    IF files = <<>> THEN acc
    ELSE LET serial == Prefix(stem(Head(files)), KeyLen)
         IN  files_with_serials(Tail(files), serials,
                 IF serial \in serials THEN DictSet(acc, serial, Head(files)) ELSE acc)

get_files_with_serials(listing, subprocess_ok) ==
    LET globbed == jpg_files(listing)
        serials == get_serials_from_main(globbed, subprocess_ok)
    IN  IF serials = {} THEN [k \in {} |-> <<>>]
        ELSE files_with_serials(globbed, serials, [k \in {} |-> <<>>])

\* ------------------------------------------------------------- the resolver

\* The prefix branch without its replace('/', '\\').
network_path_unnormalised(db_file_path) ==
    IF startswith(db_file_path, DB_PATH_PREFIX)
    THEN NETWORK_SHARE_BASE \o Suffix(db_file_path, Len(DB_PATH_PREFIX))
    ELSE replace(db_file_path)

\* Lines 108-116: the stored path as a path of the network share.
network_path(db_file_path) ==
    IF startswith(db_file_path, DB_PATH_PREFIX)
    THEN NETWORK_SHARE_BASE \o replace(Suffix(db_file_path, Len(DB_PATH_PREFIX)))
    ELSE replace(db_file_path)

\* file_paths[db_filename] = path, on a dict kept in insertion order.
PutPath(file_paths, name, path) ==
    IF \E i \in 1..Len(file_paths) : file_paths[i].filename = name
    THEN [i \in 1..Len(file_paths) |->
            IF file_paths[i].filename = name
            THEN [filename |-> name, path |-> path] ELSE file_paths[i]]
    ELSE Append(file_paths, [filename |-> name, path |-> path])

\* The loop over the fetched rows.
RECURSIVE build_file_paths(_, _)
build_file_paths(rows, file_paths) ==
    IF rows = <<>> THEN file_paths
    ELSE build_file_paths(Tail(rows),
             PutPath(file_paths, Head(rows).file_name, network_path(Head(rows).file_path)))

\* WHERE file_name IN (:filename_0, ...), compared exactly.
Selected(t, batch) == { r \in t : \E pair \in batch : pair[1] = r.file_name }

\* ------------------------------------------------------------ the record store

\* The names the table's rows are drawn for.
RowNames == {FileA, FileC}

\* Stored paths of the tables with several rows: one under DB_PATH_PREFIX, one
\* outside it, one inside the directory the second names, one with no directory.
KeyPaths ==
    { DB_PATH_PREFIX \o <<"E">>, <<"E", "/", "L">>, <<"E", "/", "L", "/", "E">>, <<"E">> }

PathChars == {"/", "\\", "E", "L"}

\* Every stored path of at most MaxPathLen characters.
AllPaths == UNION { [1..n -> PathChars] : n \in 0..MaxPathLen }

Row(n, p) == [file_name |-> n, file_path |-> p, serial_nbr |-> truncate_first_20(stem(n))]

\* The tables a run starts on: any MaxRows rows over KeyPaths ...
KeyTables ==
    { t \in SUBSET { Row(n, p) : n \in RowNames, p \in KeyPaths } :
        Cardinality(t) <= MaxRows }

\* ... or one row for FileC with any stored path.
PathTables == { {Row(FileC, p)} : p \in AllPaths }

\* Content a destination held before the run, and what an interrupted copy leaves.
Old == <<"o", "l", "d">>
Partial == <<"?">>

\* -------------------------------------------------------------------- state

VARIABLES
    folder,                     \* local files of the scanned folder: name -> content
    remote,                     \* files of the destination tree: path -> content
    dirs,                       \* directories of the destination tree
    table,                      \* the record store's rows
    pc,                         \* "idle", "scanned", "connect", "query", "loop", "done"
    caller,                     \* who called get_batch_file_paths_from_db
    dry_run,
    source_files_with_serials,  \* dict: serial -> file name
    filenames_and_serials,      \* the batch handed to the resolver
    db_status,                  \* how the last lookup went inside the resolver
    queries,                    \* conn.execute calls of the current lookup
    db_file_paths,              \* the resolver's return value, in dict order
    idx,                        \* position of the loop over db_file_paths
    moved_count,
    would_move_count,
    outcomes,                   \* what the loop reported, pair by pair
    result,                     \* move_files_to_remote_paths' return value
    start                       \* the file systems as the current call found them

vars ==
    <<folder, remote, dirs, table, pc, caller, dry_run, source_files_with_serials,
      filenames_and_serials, db_status, queries, db_file_paths, idx, moved_count,
      would_move_count, outcomes, result, start>>

fs == [folder |-> folder, remote |-> remote, dirs |-> dirs]

EmptyDict == [k \in {} |-> <<>>]

\* The state before any call: no locals, nothing returned.
Idle ==
    /\ dirs = {}
    /\ pc = "idle"
    /\ caller = "none"
    /\ dry_run = FALSE
    /\ source_files_with_serials = EmptyDict
    /\ filenames_and_serials = {}
    /\ db_status = "none"
    /\ queries = 0
    /\ db_file_paths = <<>>
    /\ idx = 0
    /\ moved_count = 0
    /\ would_move_count = 0
    /\ outcomes = <<>>
    /\ result = "none"
    /\ start = [folder |-> folder, remote |-> remote, dirs |-> dirs]

\* A folder, a table, and at most one destination that holds a file already.
Init ==
    /\ \E f \in Folders : folder = [n \in f |-> n]
    /\ table \in KeyTables
    /\ \E pre \in SUBSET {network_path(r.file_path) : r \in table} :
          /\ Cardinality(pre) <= 1
          /\ remote = [p \in pre |-> Old]
    /\ Idle

\* The resolver alone: no file anywhere, and any table.
InitResolve ==
    /\ folder = EmptyDict
    /\ table \in KeyTables \cup PathTables
    /\ remote = EmptyDict
    /\ Idle

\* ------------------------------------------------------------------ main()

\* Lines 287-293: the scan; main returns when it finds no file.
main_scan ==
    /\ pc = "idle"
    /\ \E dry \in BOOLEAN, subprocess_ok \in BOOLEAN, listing \in Listings(DOMAIN folder) :
          LET found == get_files_with_serials(listing, subprocess_ok)
          IN  /\ dry_run' = dry
              /\ source_files_with_serials' = found
              /\ pc' = IF DOMAIN found = {} THEN "done" ELSE "scanned"
    /\ UNCHANGED <<folder, remote, dirs, table, caller, filenames_and_serials, db_status,
                   queries, db_file_paths, idx, moved_count, would_move_count, outcomes,
                   result, start>>

\* ------------------------------------------------ move_files_to_remote_paths

\* Lines 198-211: the early return on no files, the batch, the call of the
\* resolver.  main() makes the call after its scan; it is made again on the
\* dict of the same scan after a call that was no dry run (a dry run leaves
\* the state the call found).
move_files_enter ==
    /\ \/ pc = "scanned"
       \/ pc = "done" /\ caller = "move" /\ ~dry_run
    /\ start' = fs
    /\ outcomes' = <<>>
    /\ moved_count' = 0
    /\ would_move_count' = 0
    /\ idx' = 0
    /\ db_file_paths' = <<>>
    /\ queries' = 0
    /\ db_status' = "none"
    /\ IF DOMAIN source_files_with_serials = {}
       THEN /\ result' = "False"
            /\ pc' = "done"
            /\ UNCHANGED <<caller, filenames_and_serials>>
       ELSE /\ filenames_and_serials' =
                 { <<source_files_with_serials[serial], serial>> :
                     serial \in DOMAIN source_files_with_serials }
            /\ caller' = "move"
            /\ result' = "none"
            /\ pc' = "connect"
    /\ UNCHANGED <<folder, remote, dirs, table, dry_run, source_files_with_serials>>

\* The resolver returns file_paths to its caller; lines 213-220 of
\* move_files_to_remote_paths return False on an empty mapping and start the
\* loop otherwise.
Return(file_paths) ==
    /\ db_file_paths' = file_paths
    /\ IF caller = "move"
       THEN IF file_paths = <<>>
            THEN /\ result' = "False"
                 /\ pc' = "done"
                 /\ idx' = idx
            ELSE /\ result' = result
                 /\ pc' = "loop"
                 /\ idx' = 1
       ELSE /\ result' = result
            /\ pc' = "done"
            /\ idx' = idx

\* Lines 73-78: connect_to_database gives no engine when the store cannot be
\* reached, and the empty batch is answered without a query.
connect_to_database ==
    /\ pc = "connect"
    /\ \E reached \in BOOLEAN :
          IF ~reached
          THEN /\ db_status' = "connect_failed"
               /\ Return(<<>>)
          ELSE IF filenames_and_serials = {}
          THEN /\ db_status' = "ok"
               /\ Return(<<>>)
          ELSE /\ db_status' = db_status
               /\ pc' = "query"
               /\ UNCHANGED <<db_file_paths, result, idx>>
    /\ UNCHANGED <<folder, remote, dirs, table, caller, dry_run, source_files_with_serials,
                   filenames_and_serials, queries, moved_count, would_move_count,
                   outcomes, start>>

\* One SELECT for each file name of the batch.
executes_per_filename(how) ==
    IF how = "connect_failed" THEN 0 ELSE Cardinality(filenames_and_serials)

\* Line 97: conn.execute is reached once unless engine.connect() raised.
executes(how) == IF how = "connect_failed" THEN 0 ELSE 1

\* Lines 83-126: the one SELECT and the mapping built from its rows, in the
\* order the store returns them; every failure is answered with {}.
query ==
    /\ pc = "query"
    /\ \E how \in {"ok", "connect_failed", "query_failed"} :
          /\ db_status' = how
          /\ queries' = queries + executes(how)
          /\ IF how = "ok"
             THEN \E rows \in Listings(Selected(table, filenames_and_serials)) :
                     Return(build_file_paths(rows, <<>>))
             ELSE Return(<<>>)
    /\ UNCHANGED <<folder, remote, dirs, table, caller, dry_run, source_files_with_serials,
                   filenames_and_serials, moved_count, would_move_count, outcomes, start>>

\* What one pass of the loop can meet at os.makedirs and shutil.move.
IoResults == {"ok", "makedirs_failed", "move_failed", "copy_cut", "unlink_failed"}

Report(name, status) == Append(outcomes, [filename |-> name, status |-> status])

\* The test of line 241 left out.
exists_unchecked(name) == TRUE

\* Line 241: local_file.exists()
local_file_exists(name) == name \in DOMAIN folder

\* shutil.move's real_dst: inside dst when dst is a directory.
real_dst(name, dst) == IF dst \in dirs THEN dst \o <<"\\">> \o name ELSE dst

\* A move that keeps the file it finds at the destination.
write_if_absent(to, content) ==
    IF to \in DOMAIN remote THEN remote ELSE DictSet(remote, to, content)

\* shutil.move writes the source's bytes over whatever the destination holds.
write(to, content) == DictSet(remote, to, content)

\* The count of line 254 taken outside the try.
count_every_pair(moved) == moved_count + 1

\* Line 254: moved_count += 1, reached only when nothing raised.
count_moved(moved) == IF moved THEN moved_count + 1 ELSE moved_count

\* Lines 246-257 for one pair: os.makedirs raises on an empty name, on a file in
\* the directory's place and on an I/O failure; shutil.move raises on a missing
\* source, on a destination it cannot replace and on an I/O failure, which may
\* cut the copy short or leave the source it could not unlink.
relocate(name, dst, io) ==
    LET remote_dir == dirname(dst)
        made == remote_dir # <<>> /\ remote_dir \notin DOMAIN remote /\ io # "makedirs_failed"
        to == real_dst(name, dst)
        clash == to \in dirs \/ (to # dst /\ to \in DOMAIN remote)
        writable == made /\ name \in DOMAIN folder /\ ~clash
        copied == writable /\ io \in {"ok", "unlink_failed"}
        cut == writable /\ io = "copy_cut"
        moved == copied /\ io = "ok"
    IN  /\ dirs' = IF made THEN dirs \cup {remote_dir} ELSE dirs
        /\ remote' = IF copied THEN write(to, folder[name])
                     ELSE IF cut THEN write(to, Partial)
                     ELSE remote
        /\ folder' = IF moved THEN [n \in DOMAIN folder \ {name} |-> folder[n]] ELSE folder
        /\ moved_count' = count_moved(moved)
        /\ outcomes' = Report(name, IF moved THEN "moved" ELSE "failed")

\* The dry-run test placed after os.makedirs.
would_move_after_makedirs(filename, remote_db_path) ==
    /\ outcomes' = Report(filename, "wouldMove")
    /\ would_move_count' = would_move_count + 1
    /\ dirs' = dirs \cup {dirname(remote_db_path)}
    /\ UNCHANGED <<folder, remote, moved_count>>

\* Lines 234-237: the dry run reports the pair and goes on.
would_move(filename, remote_db_path) ==
    /\ outcomes' = Report(filename, "wouldMove")
    /\ would_move_count' = would_move_count + 1
    /\ UNCHANGED <<folder, remote, dirs, moved_count>>

\* Lines 222-257: one pass of the loop over db_file_paths.
process_pair ==
    /\ pc = "loop"
    /\ idx <= Len(db_file_paths)
    /\ LET filename == db_file_paths[idx].filename
           remote_db_path == db_file_paths[idx].path
           found == \E serial \in DOMAIN source_files_with_serials :
                       source_files_with_serials[serial] = filename
       IN  IF ~found
           THEN /\ outcomes' = Report(filename, "skippedMissingLocal")
                /\ UNCHANGED <<folder, remote, dirs, moved_count, would_move_count>>
           ELSE IF dry_run
           THEN would_move(filename, remote_db_path)
           ELSE IF ~local_file_exists(filename)
           THEN /\ outcomes' = Report(filename, "skippedMissingLocal")
                /\ UNCHANGED <<folder, remote, dirs, moved_count, would_move_count>>
           ELSE /\ \E io \in IoResults : relocate(filename, remote_db_path, io)
                /\ UNCHANGED would_move_count
    /\ idx' = idx + 1
    /\ UNCHANGED <<table, pc, caller, dry_run, source_files_with_serials,
                   filenames_and_serials, db_status, queries, db_file_paths, result,
                   start>>

\* A call that reports success whenever its loop completes.
success_on_completion(count) == "True"

\* Lines 261 and 265: the call succeeded when the count is positive.
success(count) == IF count > 0 THEN "True" ELSE "False"

\* Lines 259-265: the return value.
finish ==
    /\ pc = "loop"
    /\ idx > Len(db_file_paths)
    /\ result' = IF dry_run THEN success(would_move_count) ELSE success(moved_count)
    /\ pc' = "done"
    /\ UNCHANGED <<folder, remote, dirs, table, caller, dry_run, source_files_with_serials,
                   filenames_and_serials, db_status, queries, db_file_paths, idx,
                   moved_count, would_move_count, outcomes, start>>

\* get_batch_file_paths_from_db called on its own, with any batch.  The
\* resolver reads no file, so the call is made with the folder empty only.
call_resolve ==
    /\ pc = "idle"
    /\ DOMAIN folder = {}
    /\ \E names \in SUBSET RowNames :
          filenames_and_serials' = { <<n, truncate_first_20(stem(n))>> : n \in names }
    /\ caller' = "direct"
    /\ pc' = "connect"
    /\ UNCHANGED <<folder, remote, dirs, table, dry_run, source_files_with_serials,
                   db_status, queries, db_file_paths, idx, moved_count, would_move_count,
                   outcomes, result, start>>

Next ==
    \/ main_scan
    \/ move_files_enter
    \/ connect_to_database
    \/ query
    \/ process_pair
    \/ finish
    \/ call_resolve

Spec == Init /\ [][Next]_vars

NextResolve ==
    \/ call_resolve
    \/ connect_to_database
    \/ query

SpecResolve == InitResolve /\ [][NextResolve]_vars

\* ------------------------------------------------------------------ claims

Range(f) == { f[x] : x \in DOMAIN f }

IsImage(n) == jpg_files(<<n>>) # <<>>

Key(n) == truncate_first_20(stem(n))

\* The call of move_files_to_remote_paths has returned.
Returned == pc = "done" /\ caller = "move"

\* The resolver has returned to its caller.
Resolved == pc \in {"loop", "done"} /\ caller \in {"move", "direct"}

Requested == { pair[1] : pair \in filenames_and_serials }

Statuses(status) == { i \in 1..Len(outcomes) : outcomes[i].status = status }

\* C1: two image files of the folder whose keys (first 20 characters of the
\* stem) are equal and whose names differ are both kept by the scan and both
\* handed to the resolver.
C1_CollidingFilesRetained ==
    \A a, b \in DOMAIN folder :
        (a # b /\ IsImage(a) /\ IsImage(b) /\ Key(a) = Key(b)) =>
            /\ pc = "scanned" => {a, b} \subseteq Range(source_files_with_serials)
            /\ (pc = "connect" /\ caller = "move") => {a, b} \subseteq Requested

\* C2: a dry run mutates no file system: the folder, the destination files and
\* the destination directories stay as the call found them.
C2_DryRunTouchesNothing == dry_run => fs = start

C2_Witness ==
    /\ Returned /\ dry_run
    /\ would_move_count = 2
    /\ \E i \in 1..Len(db_file_paths) : db_file_paths[i].path \in DOMAIN remote

\* C3: a dry run on a non-empty file set reports one outcome per local file,
\* and skippedNoRemoteMatch for every local file the resolver gave no row
\* (stated for the calls whose lookup succeeded).
C3_DryRunAccountsForEveryFile ==
    (Returned /\ dry_run /\ db_status = "ok") =>
        /\ Len(outcomes) = Cardinality(Range(source_files_with_serials))
        /\ \A n \in Range(source_files_with_serials) :
              (\A i \in 1..Len(db_file_paths) : db_file_paths[i].filename # n) =>
                  \E i \in 1..Len(outcomes) :
                      outcomes[i] = [filename |-> n, status |-> "skippedNoRemoteMatch"]

\* C4: a relocation counted as moved, onto a destination that held a file,
\* leaves at the destination the content the source had before it.
C4_OverwriteWins ==
    [][ ( /\ pc = "loop"
          /\ moved_count' = moved_count + 1
          /\ db_file_paths[idx].path \in DOMAIN remote )
        => remote'[db_file_paths[idx].path] = folder[db_file_paths[idx].filename] ]_vars

C4_Witness ==
    \E i \in 1..Len(outcomes) :
        /\ outcomes[i].status = "moved"
        /\ db_file_paths[i].path \in DOMAIN start.remote
        /\ start.remote[db_file_paths[i].path] = Old
        /\ remote[db_file_paths[i].path] = start.folder[outcomes[i].filename]

\* Every file of the set had left the folder when the call began.
AlreadyRelocated ==
    \A n \in Range(source_files_with_serials) : n \notin DOMAIN start.folder

\* C5: a second call, no dry run, on a file set that was relocated, with the
\* record store answering, reports skippedMissingLocal for each file, moves
\* nothing and leaves every file system as the first call left it.
C5_SecondRunSkips ==
    (Returned /\ ~dry_run /\ db_status = "ok" /\ AlreadyRelocated) =>
        /\ { outcomes[i].filename : i \in Statuses("skippedMissingLocal") }
              = Range(source_files_with_serials)
        /\ Len(outcomes) = Cardinality(Range(source_files_with_serials))
        /\ moved_count = 0
        /\ result = "False"
        /\ fs = start

C5_Witness ==
    /\ Returned /\ ~dry_run /\ db_status = "ok" /\ AlreadyRelocated
    /\ Len(outcomes) = 2
    /\ \E p \in DOMAIN remote : remote[p] = FileC

\* What a lookup that succeeds and matches no row returns.
NoRowMatched == build_file_paths(<<>>, <<>>)

\* C6: a lookup that could not reach or query the record store returns to its
\* caller something a lookup that matched no row does not return.
C6_UnavailableIsDistinguishable ==
    (Resolved /\ db_status \in {"connect_failed", "query_failed"}) =>
        db_file_paths # NoRowMatched

\* C7 as claimed: one call of the resolver executes exactly one query for a
\* non-empty batch, and none for the empty batch, which it answers with {}.
C7_ExactlyOneQuery ==
    Resolved =>
        /\ filenames_and_serials # {} => queries = 1
        /\ filenames_and_serials = {} => queries = 0 /\ db_file_paths = <<>>

\* C7: one call of the resolver executes at most one query: exactly one for a
\* non-empty batch once the record store is reached, none when it is not, and
\* none for the empty batch, which it answers with {}.
C7_OneQueryWhenReached ==
    /\ queries <= 1
    /\ Resolved =>
          /\ (filenames_and_serials # {} /\ db_status \in {"ok", "query_failed"})
                => queries = 1
          /\ db_status = "connect_failed" => queries = 0
          /\ filenames_and_serials = {} => queries = 0 /\ db_file_paths = <<>>

C7_Witness ==
    /\ Resolved
    /\ Cardinality(filenames_and_serials) = 2
    /\ db_status = "ok"
    /\ queries = 1
    /\ Len(db_file_paths) = 2

\* '/' replaced by '\' at every position, nothing else changed.
Normalised(p) == [i \in 1..Len(p) |-> IF p[i] = "/" THEN "\\" ELSE p[i]]

BeginsWithPrefix(p) ==
    /\ Len(p) >= Len(DB_PATH_PREFIX)
    /\ \A i \in 1..Len(DB_PATH_PREFIX) : p[i] = DB_PATH_PREFIX[i]

\* The destination root followed by the normalised remainder after the prefix,
\* or the normalised stored path when it does not begin with the prefix.
CanonicalDestination(p) ==
    IF BeginsWithPrefix(p)
    THEN NETWORK_SHARE_BASE
           \o Normalised([i \in 1..(Len(p) - Len(DB_PATH_PREFIX)) |-> p[i + Len(DB_PATH_PREFIX)]])
    ELSE Normalised(p)

\* C8: the mapping a successful lookup returns holds, for each requested file
\* name that has a row, exactly one entry, whose path is the canonical
\* destination of a row of that name, and no other entry.
C8_CanonicalDestinations ==
    (Resolved /\ db_status = "ok" /\ filenames_and_serials # {}) =>
        /\ \A i \in 1..Len(db_file_paths) :
              /\ db_file_paths[i].filename \in Requested
              /\ \E r \in table :
                    /\ r.file_name = db_file_paths[i].filename
                    /\ db_file_paths[i].path = CanonicalDestination(r.file_path)
        /\ \A i, j \in 1..Len(db_file_paths) :
              db_file_paths[i].filename = db_file_paths[j].filename => i = j
        /\ \A r \in table :
              r.file_name \in Requested =>
                  \E i \in 1..Len(db_file_paths) : db_file_paths[i].filename = r.file_name

C8_Witness ==
    /\ Resolved /\ db_status = "ok"
    /\ table = {Row(FileC, DB_PATH_PREFIX \o <<"/">>)}
    /\ db_file_paths = <<[filename |-> FileC, path |-> NETWORK_SHARE_BASE \o <<"\\">>]>>

\* No file of the set has a row in the record store.
NoFileHasARow ==
    \A n \in Range(source_files_with_serials) : \A r \in table : r.file_name # n

\* C9: the call returns True exactly when a relocation occurred: a file left
\* the folder, or in a dry run a pair was reported wouldMove; with no matching
\* row it returns False with nothing counted.
C9_SuccessIffRelocated ==
    Returned =>
        /\ ~dry_run => ((result = "True") <=> (DOMAIN folder # DOMAIN start.folder))
        /\ dry_run => ((result = "True") <=> (Statuses("wouldMove") # {}))
        /\ NoFileHasARow =>
              result = "False" /\ moved_count = 0 /\ would_move_count = 0

C9_Witness ==
    /\ Returned /\ ~dry_run
    /\ result = "True"
    /\ Statuses("failed") # {}

====
